---------------------------- MODULE Spec2Model ----------------------------
(*************************************************************************)
(* AutoVINReveal server (src/server.js): the entitlement-gated report    *)
(* fulfillment core, the Stripe webhook, the finalize safety net and the *)
(* PayPal capture handler, as one state machine.                         *)
(*                                                                       *)
(* Every HTTP request is a process.  A process runs from one await point *)
(* of its handler to the next in one atomic step (Node runs a handler    *)
(* without preemption between awaits); any other process may run between *)
(* two steps.  A remote call's outcome (payment processor, report        *)
(* provider, database) is drawn when the call returns.                   *)
(*************************************************************************)
EXTENDS Integers, Sequences, FiniteSets, TLC

(***************************** bounds ************************************)
\* number of requests of one run (each request slot is used once)
MaxProcs == 2
\* the credit balance of a user who has a row in table credits at the start
InitBal == 2

\* tokens minted in one run, and the last clock value
MaxTokens == 2
MaxTime == 3
MaxLen == 3
MaxItems == 2

(************************** program constants ****************************)
\* exp = Date.now() + 24 * 60 * 60 * 1000: 24 hours, in units of 12 hours
\* the sniffing window of decodeReportBase64: 2048 characters, in chunks of
\* 1024
SniffLen == 2

SHARE_TTL == 2
CREDITS_PER_SINGLE == 1
CREDITS_PER_10PACK == 5

None == "none"

Procs == 1..MaxProcs
Users == {"u1"}

\* VINs a request can name: one that passes validateVin, one of wrong
\* length or charset, one with a wrong check digit, and the empty string
\* (no VIN given).
ValidVins == {"V1"}
VinInputs == ValidVins \cup {"", "BADFMT", "BADCHK"}
Types == {"carfax"}

\* base64 payloads the provider delivers, named by what decodeReportBase64
\* makes of them; the provider never delivers an empty body on success
\* (csGet's comment, server.js:196)
Payloads == {"html", "pdf", "unknown"}
NoPayload == "absent"

\* Stripe checkout sessions known to the processor, and PayPal captures
Sessions == {"cs_A", "cs_B"}
PaypalReceipts == {"pp_C1"}
Receipts == Sessions \cup PaypalReceipts

\* price ids of the deployment's environment
PRICE_SINGLE == "price_single"
PRICE_10PACK == "price_10pack"
PRICE_SINGLE_TEST == "price_single_test"
PRICE_10PACK_TEST == "price_10pack_test"

\* what Stripe holds for a session: cs_A is a signed-in user's credit
\* bundle, cs_B a guest's purchase of one report
SessionLineItems(s) ==
    IF s = "cs_A" THEN << [price |-> PRICE_10PACK, quantity |-> 1] >>
                  ELSE << [price |-> "price_other", quantity |-> 1] >>
SessionUserId(s) == IF s = "cs_A" THEN "u1" ELSE None
SessionIntent(s) == IF s = "cs_A" THEN "buy_credits_bundle" ELSE "buy_report"
SessionVin(s) == IF s = "cs_A" THEN "" ELSE "V1"
SessionType(s) == "carfax"

VARIABLES
    proc,       \* proc[p]: the request in slot p (position and locals)
    credits,    \* credits[u]: the row of table credits (NoRow: no row yet)
    ledger,     \* ledger[u]: summed deltas of table credit_ledger by reason
    cache,      \* cache[<<vin, type>>]: content of the cache file, or absent
    CONSUMED,   \* the set of consumed one-time receipts
    bal0,       \* the balances at the start of the run (never changes)
    SHARE_TOKENS,   \* the share tokens: records [tok, vin, type, exp]
    now,            \* Date.now(), in units of 12 hours
    minted,         \* the number of tokens makeToken has returned
    out,            \* the last response of POST /api/share or GET /view
    checkout,       \* the POST /api/create-checkout-session in flight
    stripeSessions, \* the checkout sessions created at the processor
    admin,          \* the GET /api/admin/open in flight
    blob,           \* the payload handed to decodeReportBase64
    decoded,        \* what decodeReportBase64 returned for it
    lineItems,      \* the line items of a session at the two credit loops
    granted,        \* granted.webhook, granted.finalize: their results
    answer,         \* how the provider answers the report fetch under way
    CONSUMED_FILE,  \* the content of .consumed_sessions.json
    disk            \* "ok", or "faulty": a read of an existing file or the
                    \* write of the consumed file may throw

\* the state of the endpoints that only read the cache
\* the admin request in flight, and the payload at the decoder
extraVars == << admin, blob, decoded, lineItems, granted, answer >>

sideVars == << SHARE_TOKENS, now, minted, out, checkout, stripeSessions,
               extraVars >>

\* the files of the server besides the cache, and their health
diskVars == << CONSUMED_FILE, disk >>

vars == << proc, credits, ledger, cache, CONSUMED, bal0, sideVars, diskVars >>

Keys == ValidVins \X Types

(***************************** helpers ***********************************)
\* GET /api/credits/:user_id reads balance ?? 0
NoRow == [exists |-> FALSE, balance |-> 0]
Row(n) == [exists |-> TRUE, balance |-> n]
Balance(u) == IF credits[u].exists THEN credits[u].balance ELSE 0

LedgerSum(u) == ledger[u].purchase - ledger[u].spend + ledger[u].refund

\* fs.existsSync(ck(vin, type)) ? the file's content : null
readCache(vin, type) ==
    IF << vin, type >> \in DOMAIN cache THEN cache[<< vin, type >>]
    ELSE NoPayload

\* the outcomes of one file operation: it succeeds, or may throw on a faulty
\* disk
DiskOutcomes == IF disk = "ok" THEN {TRUE} ELSE BOOLEAN

\* saveConsumed(): write the whole set; an error of the write is swallowed
saveConsumed(set, ok) == IF ok THEN set ELSE CONSUMED_FILE

\* a VIN whose report an earlier run of the server left in the cache
\* directory; it passes validateVin like the VINs of ValidVins
OldVins == {"V2"}
GoodVins == ValidVins \cup OldVins

\* String.prototype.toUpperCase / toLowerCase / trim on the strings of the
\* model
toUpperCase(str) == IF str = "v1" THEN "V1" ELSE str
toLowerCase(str) == IF str = "CARFAX" THEN "carfax" ELSE str
trim(str) == IF str = " V1" THEN "V1" ELSE str

\* the check digit not verified
validateVin_FormatOnly(vinRaw) ==
    LET vin == trim(toUpperCase(vinRaw)) IN
    IF vin \notin (GoodVins \cup {"BADCHK"}) THEN [ok |-> FALSE, code |-> "format", vin |-> vin]
    ELSE [ok |-> TRUE, code |-> "", vin |-> vin]

\* toUpperCase().trim(), then isPlausibleVinFormat, then vinCheckDigitOk
validateVin(vinRaw) ==
    LET vin == trim(toUpperCase(vinRaw)) IN
    IF vin \notin (GoodVins \cup {"BADCHK"}) THEN [ok |-> FALSE, code |-> "format", vin |-> vin]
    ELSE IF vin = "BADCHK" THEN [ok |-> FALSE, code |-> "check_digit", vin |-> vin]
    ELSE [ok |-> TRUE, code |-> "", vin |-> vin]

\* Payload bytes, in chunks: the two bytes of the gzip magic number, the PDF
\* magic string, an HTML tag, a character of other text, a byte that is not
\* valid UTF-8, and the deflate streams of the tag and of the character
Bytes == {"1f", "8b", "%PDF-", "<html>", "x", "ff", "z1", "z2"}

\* the base64 text of a chunk
Base64(b) ==
    CASE b = "1f" -> "Hw"
      [] b = "8b" -> "iw"
      [] b = "%PDF-" -> "JVBERi0"
      [] b = "<html>" -> "PGh0bWw+"
      [] b = "x" -> "eA"
      [] b = "ff" -> "/w"
      [] b = "z1" -> "ejE"
      [] b = "z2" -> "ejI"

B64Chars == {Base64(b) : b \in Bytes}

\* the payloads the provider may deliver
RawInputs == UNION {[1..n -> B64Chars] : n \in 0..MaxLen}

\* Buffer.from(rawB64, "base64")
BufferFrom(rawB64) ==
    [i \in 1..Len(rawB64) |-> CHOOSE b \in Bytes : Base64(b) = rawB64[i]]

\* buf.toString("utf8"): a byte that is no UTF-8 becomes U+FFFD
toStringUtf8(buf) ==
    [i \in 1..Len(buf) |-> IF buf[i] \in {"8b", "ff"} THEN "U+FFFD"
                                                       ELSE buf[i]]

Inflate(z) == IF z = "z1" THEN "<html>" ELSE "x"

\* zlib.gunzipSync(buf): the bytes behind the header are inflated; it throws
\* (ok = FALSE) when they are no deflate stream
gunzipSync(buf) ==
    LET body == SubSeq(buf, 3, Len(buf)) IN
    IF Len(body) > 0 /\ \A i \in 1..Len(body) : body[i] \in {"z1", "z2"}
    THEN [ok |-> TRUE, out |-> [i \in 1..Len(body) |-> Inflate(body[i])]]
    ELSE [ok |-> FALSE, out |-> << >>]

\* /<!DOCTYPE html|<html[\s>]/i.test(asText.slice(0, 2048))
HasHtmlTag(asText) ==
    \E i \in 1..Len(asText) : i <= SniffLen /\ asText[i] = "<html>"

Decoded(kind, html, buffer, error) ==
    [kind |-> kind, html |-> html, buffer |-> buffer, error |-> error]

decodeReportBase64_SniffFirst(rawB64) ==
    LET buf == BufferFrom(rawB64)
        asText == toStringUtf8(buf)
    IN  IF Len(buf) >= 2 /\ buf[1] = "1f" /\ buf[2] = "8b"
        THEN IF gunzipSync(buf).ok
             THEN Decoded("html", toStringUtf8(gunzipSync(buf).out), << >>, "")
             ELSE Decoded("unknown", << >>, buf, "gunzip-failed")
        ELSE IF HasHtmlTag(asText)
        THEN Decoded("html", asText, << >>, "")
        ELSE IF Len(buf) >= 1 /\ buf[1] = "%PDF-"
        THEN Decoded("pdf", << >>, buf, "")
        ELSE Decoded("unknown", << >>, buf, "")

decodeReportBase64(rawB64) ==
    LET buf == BufferFrom(rawB64)
        asText == toStringUtf8(buf)
    IN  IF Len(buf) >= 2 /\ buf[1] = "1f" /\ buf[2] = "8b"
        THEN IF gunzipSync(buf).ok
             THEN Decoded("html", toStringUtf8(gunzipSync(buf).out), << >>, "")
             ELSE Decoded("unknown", << >>, buf, "gunzip-failed")
        ELSE IF Len(buf) >= 1 /\ buf[1] = "%PDF-"
        THEN Decoded("pdf", << >>, buf, "")
        ELSE IF HasHtmlTag(asText)
        THEN Decoded("html", asText, << >>, "")
        ELSE Decoded("unknown", << >>, buf, "")

\* the bytes of the three payloads of Payloads, as the provider delivers them
Stored(raw) ==
    CASE raw = "html" -> << Base64("<html>"), Base64("x") >>
      [] raw = "pdf" -> << Base64("%PDF-"), Base64("x") >>
      [] raw = "unknown" -> << Base64("x") >>

\* the kind decodeReportBase64 gives to a cached payload
decodeKind(raw) == decodeReportBase64(Stored(raw)).kind

\* the price ids of line items; a quantity of 0 stands for an item without
\* quantity
PriceIds ==
    {PRICE_SINGLE, PRICE_SINGLE_TEST, PRICE_10PACK, PRICE_10PACK_TEST,
     "price_other"}
Quantities == {0, 1, 2}
LineItems == [price : PriceIds, quantity : Quantities]
ItemLists == UNION {[1..n -> LineItems] : n \in 0..MaxItems}

RECURSIVE CreditsFrom_DropUnknown(_, _)
CreditsFrom_DropUnknown(items, i) ==
    IF i > Len(items) THEN 0
    ELSE LET pid == items[i].price
             qty == IF items[i].quantity # 0 THEN items[i].quantity ELSE 1
         IN  (IF pid = PRICE_SINGLE \/ pid = PRICE_SINGLE_TEST
              THEN qty * CREDITS_PER_SINGLE
              ELSE IF pid = PRICE_10PACK \/ pid = PRICE_10PACK_TEST
              THEN qty * CREDITS_PER_10PACK
              ELSE 0) + CreditsFrom_DropUnknown(items, i + 1)

\* the loop of the webhook over lineItems.data (li.quantity || 1)
RECURSIVE CreditsFrom(_, _)
CreditsFrom(items, i) ==
    IF i > Len(items) THEN 0
    ELSE LET pid == items[i].price
             qty == IF items[i].quantity # 0 THEN items[i].quantity ELSE 1
         IN  (IF pid = PRICE_SINGLE \/ pid = PRICE_SINGLE_TEST
              THEN qty * CREDITS_PER_SINGLE
              ELSE IF pid = PRICE_10PACK \/ pid = PRICE_10PACK_TEST
              THEN qty * CREDITS_PER_10PACK
              ELSE qty * CREDITS_PER_SINGLE) + CreditsFrom(items, i + 1)

\* the loop of finalize over lineItems.data
RECURSIVE FinalizeCreditsFrom(_, _)
FinalizeCreditsFrom(items, i) ==
    IF i > Len(items) THEN 0
    ELSE LET pid == items[i].price
             qty == IF items[i].quantity # 0 THEN items[i].quantity ELSE 1
         IN  (IF pid = PRICE_SINGLE \/ pid = PRICE_SINGLE_TEST
              THEN qty * CREDITS_PER_SINGLE
              ELSE IF pid = PRICE_10PACK \/ pid = PRICE_10PACK_TEST
              THEN qty * CREDITS_PER_10PACK
              ELSE qty * CREDITS_PER_SINGLE)
             + FinalizeCreditsFrom(items, i + 1)

creditsToAdd(s) == CreditsFrom(SessionLineItems(s), 1)

\* A request's record holds its position and the inputs and locals it has
\* read so far: a field still at its default was not read by the handler.
IdleProc ==
    [kind |-> None, pc |-> "idle", vin |-> "", type |-> "",
     allowLive |-> TRUE, receipt |-> None, user |-> None, sess |-> None,
     add |-> 0, existing |-> NoRow, path |-> None, hit |-> FALSE,
     payment |-> None, delta |-> 0, resp |-> None, forged |-> FALSE,
     fetched |-> FALSE]

\* the response is sent; the locals of the balance write are dead
Done(r, resp) ==
    [r EXCEPT !.pc = "done", !.resp = resp, !.add = 0, !.existing = NoRow]

\* slots are taken in order: the slots are interchangeable
CanStart(p) ==
    /\ proc[p].pc = "idle"
    /\ \A q \in Procs : q < p => proc[q].pc # "idle"

At(p, kind, pc) == proc[p].kind = kind /\ proc[p].pc = pc

(************************** POST /api/report *****************************)
\* the live branch entered without looking at the cache
NeedsLive_IgnoreCache(raw, allowLive) == allowLive

\* the live branch entered on every cache miss
NeedsLive_IgnoreAllowLive(raw, allowLive) == raw = NoPayload

\* the live branch is entered on a cache miss with live fetch allowed
NeedsLive(raw, allowLive) == raw = NoPayload /\ allowLive

\* the test of the consumed set left out
ReceiptUsed_Never(receipt) == FALSE

\* the receipt was used before
ReceiptUsed(receipt) == receipt \in CONSUMED

\* the tail of the handler: decode and send (as = "html" | "pdf"); convOk is
\* the outcome of the provider's HTML-to-PDF conversion
ServeResp(raw, as, convOk) ==
    IF as = "pdf" THEN
        IF decodeKind(raw) = "pdf" THEN "200"
        ELSE IF decodeKind(raw) = "html"
             THEN (IF convOk THEN "200" ELSE "502 pdf_convert_failed")
        ELSE "500 unsupported_content"
    ELSE IF decodeKind(raw) \in {"html", "pdf"} THEN "200"
    ELSE "500 unsupported_content"

\* the two tests of the authorization in the other order: a signed-in caller
\* is taken down the credit path whether or not a receipt came along
ReportGate_CreditFirst(r, vin, type, allowLive, receipt, user, as, convOk) ==
    LET raw == readCache(vin, type)
        r1 == [r EXCEPT !.vin = vin, !.type = type, !.hit = (raw # NoPayload),
                        !.allowLive = allowLive]
    IN
    IF NeedsLive(raw, allowLive) THEN
        IF user # None
        THEN [r1 EXCEPT !.user = user, !.receipt = receipt, !.pc = "rpc"]
        ELSE IF receipt # None THEN
            IF ReceiptUsed(receipt)
            THEN Done([r1 EXCEPT !.receipt = receipt], "409 receipt_used")
            ELSE [r1 EXCEPT !.receipt = receipt, !.pc = "verify"]
        ELSE Done(r1, "401 purchase_required")
    ELSE IF raw = NoPayload
         THEN Done(r1, "404 not_found")
    ELSE Done(r1, ServeResp(raw, as, convOk))

\* From the cache check to the first call of the authorization that acts on
\* shared state.  getUser(req) asks the auth service, which is no state of
\* this model: its answer (user) is taken in the same step.
ReportGate_FetchUnpaid(r, vin, type, allowLive, receipt, user, as, convOk) ==
    LET raw == readCache(vin, type)
        r1 == [r EXCEPT !.vin = vin, !.type = type, !.hit = (raw # NoPayload),
                        !.allowLive = allowLive]
    IN
    IF NeedsLive(raw, allowLive) THEN
        IF receipt # None THEN
            IF ReceiptUsed(receipt)
            THEN Done([r1 EXCEPT !.receipt = receipt], "409 receipt_used")
            ELSE [r1 EXCEPT !.receipt = receipt, !.pc = "verify"]
        ELSE IF user # None THEN [r1 EXCEPT !.user = user, !.pc = "rpc"]
        ELSE [r1 EXCEPT !.pc = "fetch"]
    ELSE IF raw = NoPayload
         THEN Done(r1, "404 not_found")
    ELSE Done(r1, ServeResp(raw, as, convOk))

ReportGate(r, vin, type, allowLive, receipt, user, as, convOk) ==
    LET raw == readCache(vin, type)
        r1 == [r EXCEPT !.vin = vin, !.type = type, !.hit = (raw # NoPayload),
                        !.allowLive = allowLive]
    IN
    IF NeedsLive(raw, allowLive) THEN
        IF receipt # None THEN
            IF ReceiptUsed(receipt)
            THEN Done([r1 EXCEPT !.receipt = receipt], "409 receipt_used")
            ELSE [r1 EXCEPT !.receipt = receipt, !.pc = "verify"]
        ELSE IF user # None THEN [r1 EXCEPT !.user = user, !.pc = "rpc"]
        ELSE Done(r1, "401 purchase_required")
    ELSE IF raw = NoPayload
         THEN Done(r1, "404 not_found")
    ELSE Done(r1, ServeResp(raw, as, convOk))

\* The request arrives.  With no VIN but state and plate the VIN comes from
\* csGet(checkplate): a text with a 17-character VIN, a text without one, or
\* an error (plate = "throw": the outer catch answers 500).  The lookup
\* touches no state of the server, so its answer is taken in this step.
ReportArrive(p, vins) ==
    /\ CanStart(p)
    /\ \E vin \in vins,
          plate \in (VinInputs \ {"BADFMT"}) \cup {"throw", "notgiven"} :
         LET r == [IdleProc EXCEPT !.kind = "report"]
             targetVin == IF vin = "" /\ plate # "notgiven" THEN plate ELSE vin
             v == validateVin(targetVin)
         IN  /\ vin # "" => plate = "notgiven"
             /\ IF targetVin = "throw"
                THEN proc' = [proc EXCEPT ![p] = Done(r, "500 server_error")]
                ELSE IF targetVin = ""
                THEN proc' = [proc EXCEPT ![p] = Done(r, "400 vin_required")]
                ELSE IF ~v.ok
                THEN proc' = [proc EXCEPT ![p] = Done(r, "422 invalid_vin")]
                ELSE \E type \in Types, readOk \in DiskOutcomes :
                       IF ~readOk /\ readCache(v.vin, type) # NoPayload
                       THEN proc' = [proc EXCEPT ![p] =
                                       Done([r EXCEPT !.vin = v.vin,
                                                      !.type = type],
                                            "500 server_error")]
                       ELSE \E allowLive \in BOOLEAN,
                               receipt \in Receipts \cup {None},
                               user \in Users \cup {None},
                               as \in {"html", "pdf"}, convOk \in BOOLEAN :
                              proc' = [proc EXCEPT ![p] =
                                         ReportGate(r, v.vin, type, allowLive,
                                                    receipt, user, as, convOk)]
    /\ UNCHANGED << credits, ledger, cache, CONSUMED, bal0, sideVars, diskVars >>

\* a request for one of the VINs of VinInputs arrives
ReportStart(p) == ReportArrive(p, VinInputs)

\* every failed verification reported as an incomplete payment
VerifyDenied_AllIncomplete(outcome) == "402 payment_incomplete"

\* the answer to a receipt that does not authorize: the processor answered
\* "not paid" (402), or the call threw and the catch block answers (400)
VerifyDenied(outcome) ==
    IF outcome = "unpaid" THEN "402 payment_incomplete"
    ELSE "400 receipt_invalid"

\* the processor's answer to the receipt lookup arrives (payment: what the
\* call gave, payment_status / capture status "paid", another status, or a
\* throw)
ReportVerify_ConsumeFirst(p) ==
    /\ At(p, "report", "verify")
    /\ \E outcome \in {"paid", "unpaid", "throw"} :
         /\ CONSUMED' = CONSUMED \cup {proc[p].receipt}
         /\ \E ok \in DiskOutcomes :
               CONSUMED_FILE' = saveConsumed(CONSUMED', ok)
         /\ IF outcome = "paid" THEN
               proc' = [proc EXCEPT ![p].pc = "fetch", ![p].path = "receipt",
                                    ![p].payment = outcome]
            ELSE
               proc' = [proc EXCEPT ![p] =
                          Done([proc[p] EXCEPT !.payment = outcome],
                               VerifyDenied(outcome))]
    /\ UNCHANGED << credits, ledger, cache, bal0, sideVars, disk >>

ReportVerify_ConsumeLate(p) ==
    /\ At(p, "report", "verify")
    /\ \E outcome \in {"paid", "unpaid", "throw"} :
         IF outcome = "paid" THEN
            /\ proc' = [proc EXCEPT ![p].pc = "fetch", ![p].path = "receipt",
                                    ![p].payment = outcome]
         ELSE
            /\ proc' = [proc EXCEPT ![p] =
                          Done([proc[p] EXCEPT !.payment = outcome],
                               VerifyDenied(outcome))]
    /\ UNCHANGED << credits, ledger, cache, CONSUMED, bal0, sideVars,
                    diskVars >>

ReportVerify(p) ==
    /\ At(p, "report", "verify")
    /\ \E outcome \in {"paid", "unpaid", "throw"} :
         IF outcome = "paid" THEN
            /\ CONSUMED' = CONSUMED \cup {proc[p].receipt}
            /\ \E ok \in DiskOutcomes :
                  CONSUMED_FILE' = saveConsumed(CONSUMED', ok)
            /\ proc' = [proc EXCEPT ![p].pc = "fetch", ![p].path = "receipt",
                                    ![p].payment = outcome]
         ELSE
            /\ proc' = [proc EXCEPT ![p] =
                          Done([proc[p] EXCEPT !.payment = outcome],
                               VerifyDenied(outcome))]
            /\ UNCHANGED << CONSUMED, CONSUMED_FILE >>
    /\ UNCHANGED << credits, ledger, cache, bal0, sideVars, disk >>

\* the database function use_credit_for_vin: one atomic statement that
\* takes one credit and writes the spend entry, or fails when the caller
\* has no credit
use_credit_for_vin_ok(u) == credits[u].exists /\ credits[u].balance >= 1
use_credit_for_vin_credits(u) == [credits EXCEPT ![u].balance = @ - 1]
use_credit_for_vin_ledger(u) == [ledger EXCEPT ![u].spend = @ + 1]

\* the error of the rpc not looked at: the request goes on to the fetch
ReportRpc_IgnoreError(p) ==
    /\ At(p, "report", "rpc")
    /\ LET u == proc[p].user IN
       \E reached \in BOOLEAN :
         IF reached /\ use_credit_for_vin_ok(u) THEN
            /\ credits' = use_credit_for_vin_credits(u)
            /\ ledger' = use_credit_for_vin_ledger(u)
            /\ proc' = [proc EXCEPT ![p].pc = "fetch", ![p].path = "credit",
                                    ![p].delta = -1]
         ELSE
            /\ proc' = [proc EXCEPT ![p].pc = "fetch", ![p].path = "credit"]
            /\ UNCHANGED << credits, ledger >>
    /\ UNCHANGED << cache, CONSUMED, bal0, sideVars, diskVars >>

\* the rpc returns; reached = FALSE is a call that did not get through
ReportRpc(p) ==
    /\ At(p, "report", "rpc")
    /\ LET u == proc[p].user IN
       \E reached \in BOOLEAN :
         IF reached /\ use_credit_for_vin_ok(u) THEN
            /\ credits' = use_credit_for_vin_credits(u)
            /\ ledger' = use_credit_for_vin_ledger(u)
            /\ proc' = [proc EXCEPT ![p].pc = "fetch", ![p].path = "credit",
                                    ![p].delta = -1]
         ELSE
            /\ proc' = [proc EXCEPT ![p] =
                          Done(proc[p], "402 insufficient_credits")]
            /\ UNCHANGED << credits, ledger >>
    /\ UNCHANGED << cache, CONSUMED, bal0, sideVars, diskVars >>

\* What the provider does with GET /getrecord: an HTTP answer with a status
\* and the first words of its body, no answer within the timeout, or a
\* connection error.
Statuses == {200, 400, 404, 500}
Hints == {"", "invalid vin", "vin not found", "busy"}
Answers ==
    [kind : {"http"}, status : Statuses, body : Hints]
    \cup [kind : {"timeout", "network"}, status : {0}, body : {""}]
NoAnswer == [kind |-> None, status |-> 0, body |-> ""]

\* csGet: the data, or an Error whose message is CS_ERROR: followed by
\* CS_<status>:<hint> or by the message of axios
csGet(a) ==
    IF a.kind = "http" /\ a.status < 400
    THEN [ok |-> TRUE, status |-> 0, text |-> ""]
    ELSE IF a.kind = "http"
    THEN [ok |-> FALSE, status |-> a.status, text |-> a.body]
    ELSE [ok |-> FALSE, status |-> 0,
          text |-> IF a.kind = "timeout" THEN "timeout of 30000ms exceeded"
                   ELSE "connect ECONNREFUSED"]

IsRemoteReject_StatusOnly(e) == e.status \in {400, 404}

\* msg.includes("CS_400") || msg.includes("CS_404") ||
\* /invalid.*vin|vin.*not.*found/i.test(msg)
IsRemoteReject(e) ==
    \/ e.status = 400
    \/ e.status = 404
    \/ e.text \in {"invalid vin", "vin not found"}

\* the outcome of the report fetch when the provider answers a
FetchOutcome(a) ==
    IF csGet(a).ok THEN "ok"
    ELSE IF IsRemoteReject(csGet(a)) THEN "reject"
    ELSE "fail"

FetchErrorResp(outcome) ==
    IF outcome = "reject" THEN "422 remote_reject" ELSE "502 provider_error"

\* the payload served but never written to the cache
ReportFetch_NoCacheWrite(p) ==
    /\ At(p, "report", "fetch")
    /\ \E outcome \in {"ok", "reject", "fail"}, live \in Payloads,
          as \in {"html", "pdf"}, convOk \in BOOLEAN :
         proc' = [proc EXCEPT ![p] =
                    Done(proc[p], IF outcome = "ok"
                                  THEN ServeResp(live, as, convOk)
                                  ELSE FetchErrorResp(outcome))]
    /\ UNCHANGED << credits, ledger, cache, CONSUMED, bal0, sideVars, diskVars >>

\* csGet(getrecord) returns: the payload (then writeCache, which may throw
\* into the same catch block), an explicit rejection, or another failure.
\* The catch block answers at once: it has no statement on the credit row,
\* the ledger or the consumed set.
ReportFetchOf(p, outcomes) ==
    /\ At(p, "report", "fetch")
    /\ \E outcome \in outcomes, live \in Payloads,
          writeOk \in BOOLEAN, as \in {"html", "pdf"}, convOk \in BOOLEAN :
         LET k == << proc[p].vin, proc[p].type >> IN
         IF outcome = "ok" /\ writeOk THEN
            /\ cache' = [cache EXCEPT ![k] = live]
            /\ proc' = [proc EXCEPT ![p] =
                          Done([proc[p] EXCEPT !.fetched = TRUE],
                               ServeResp(live, as, convOk))]
         ELSE
            /\ proc' = [proc EXCEPT ![p] =
                          Done([proc[p] EXCEPT !.fetched = (outcome = "ok")],
                               FetchErrorResp(outcome))]
            /\ UNCHANGED cache
    /\ UNCHANGED << credits, ledger, CONSUMED, bal0, sideVars, diskVars >>

\* the fetch comes back with any of the outcomes of FetchOutcome
ReportFetch(p) == ReportFetchOf(p, {"ok", "reject", "fail"})

\* the fetch comes back as the provider answers
ReportFetchAnswered(p) == ReportFetchOf(p, {FetchOutcome(answer)})

(******************* balance writes of the handlers **********************)
\* select("balance").eq(user_id).maybeSingle(): the row, or nothing when
\* there is none or the query failed
SelectBalance(u, ok) == IF ok THEN credits[u] ELSE NoRow

\* a slip of sign in the new balance
NewBalance_Minus(existing, n) == existing - n

NewBalance(existing, n) == existing + n

\* update(...) when a row was read, insert(...) when none was; user_id is
\* the table's key, so an insert beside an existing row is refused.  The
\* handlers never look at the error of the write.
WriteApplies(u, existing, ok) ==
    /\ ok
    /\ IF existing.exists THEN credits[u].exists ELSE ~credits[u].exists

WriteBalance(u, existing, n, ok) ==
    IF WriteApplies(u, existing, ok)
    THEN [credits EXCEPT ![u] =
            IF existing.exists THEN Row(NewBalance(existing.balance, n))
            ELSE Row(n)]
    ELSE credits

(*********************** POST /api/stripe-webhook ************************)
\* after the credit block: instant fulfillment for buy_report
WebhookAfterCredit_NoFetch(r) == Done(r, "200")

WebhookAfterCredit(r) ==
    IF SessionIntent(r.sess) = "buy_report" /\ SessionVin(r.sess) # ""
    THEN [r EXCEPT !.pc = "wfetch", !.add = 0, !.existing = NoRow]
    ELSE Done(r, "200")

\* the secret the stripe-signature header of an event was made with: the
\* live secret, the test secret, or neither
Signatures == {"live", "test", "forged"}

Verified_Any(sig, whTest) == TRUE

\* constructEvent with WH_LIVE, and on its error with WH_TEST if one is
\* configured
Verified(sig, whTest) == sig = "live" \/ (whTest /\ sig = "test")

\* The event arrives: signature check, event type, listLineItems (a read at
\* the processor, taken in this step; itemsOk = FALSE is its failure).
WebhookStart(p) ==
    /\ CanStart(p)
    /\ \E sig \in Signatures, whTest \in BOOLEAN, completed \in BOOLEAN,
          s \in Sessions, itemsOk \in BOOLEAN :
         LET sigOk == Verified(sig, whTest)
             r0 == [IdleProc EXCEPT !.kind = "webhook",
                                  !.forged = (sig = "forged")]
             r == [r0 EXCEPT !.sess = s, !.add = creditsToAdd(s),
                             !.user = SessionUserId(s)]
         IN  proc' = [proc EXCEPT ![p] =
                IF ~sigOk THEN Done(r0, "400")
                ELSE IF ~completed THEN Done(r0, "200")
                ELSE IF ~itemsOk THEN Done([r0 EXCEPT !.sess = s], "500")
                ELSE IF r.user # None /\ r.add > 0
                     THEN [r EXCEPT !.pc = "select"]
                ELSE WebhookAfterCredit(r)]
    /\ UNCHANGED << credits, ledger, cache, CONSUMED, bal0, sideVars, diskVars >>

WebhookSelect(p) ==
    /\ At(p, "webhook", "select")
    /\ \E ok \in BOOLEAN :
         proc' = [proc EXCEPT ![p].existing = SelectBalance(proc[p].user, ok),
                              ![p].pc = "update"]
    /\ UNCHANGED << credits, ledger, cache, CONSUMED, bal0, sideVars, diskVars >>

WebhookUpdate(p) ==
    /\ At(p, "webhook", "update")
    /\ \E ok \in BOOLEAN :
         LET r == proc[p] IN
         /\ credits' = WriteBalance(r.user, r.existing, r.add, ok)
         /\ proc' = [proc EXCEPT ![p] =
                       WebhookAfterCredit(
                         [r EXCEPT !.delta =
                            IF WriteApplies(r.user, r.existing, ok)
                            THEN r.add ELSE 0])]
    /\ UNCHANGED << ledger, cache, CONSUMED, bal0, sideVars, diskVars >>

\* fetchAndCacheReport inside try {} catch {}: every failure is swallowed
WebhookFetch_ClearOnFail(p) ==
    /\ At(p, "webhook", "wfetch")
    /\ \E ok \in BOOLEAN, live \in Payloads :
         LET s == proc[p].sess
             k == << SessionVin(s), SessionType(s) >>
         IN  cache' = IF ok THEN [cache EXCEPT ![k] = live]
                      ELSE [cache EXCEPT ![k] = NoPayload]
    /\ proc' = [proc EXCEPT ![p] = Done(proc[p], "200")]
    /\ UNCHANGED << credits, ledger, CONSUMED, bal0, sideVars, diskVars >>

WebhookFetch(p) ==
    /\ At(p, "webhook", "wfetch")
    /\ \E ok \in BOOLEAN, live \in Payloads :
         LET s == proc[p].sess
             k == << SessionVin(s), SessionType(s) >>
         IN  cache' = IF ok THEN [cache EXCEPT ![k] = live] ELSE cache
    /\ proc' = [proc EXCEPT ![p] = Done(proc[p], "200")]
    /\ UNCHANGED << credits, ledger, CONSUMED, bal0, sideVars, diskVars >>

(********************** POST /api/checkout/finalize **********************)
\* sessions.retrieve and listLineItems are reads at the processor, taken in
\* this step
FinalizeStart(p) ==
    /\ CanStart(p)
    /\ \E s \in Sessions \cup {None}, outcome \in {"paid", "unpaid", "throw"},
          itemsOk \in BOOLEAN :
         LET r0 == [IdleProc EXCEPT !.kind = "finalize", !.sess = s]
             r == [r0 EXCEPT !.add = creditsToAdd(s),
                             !.user = SessionUserId(s)]
         IN  proc' = [proc EXCEPT ![p] =
                IF s = None THEN Done(r0, "400")
                ELSE IF outcome = "unpaid" THEN Done(r0, "400")
                ELSE IF outcome = "throw" \/ ~itemsOk THEN Done(r0, "500")
                ELSE IF r.user # None /\ r.add > 0
                     THEN [r EXCEPT !.pc = "select"]
                ELSE Done(r, "200")]
    /\ UNCHANGED << credits, ledger, cache, CONSUMED, bal0, sideVars, diskVars >>

FinalizeSelect(p) ==
    /\ At(p, "finalize", "select")
    /\ \E ok \in BOOLEAN :
         proc' = [proc EXCEPT ![p].existing = SelectBalance(proc[p].user, ok),
                              ![p].pc = "update"]
    /\ UNCHANGED << credits, ledger, cache, CONSUMED, bal0, sideVars, diskVars >>

FinalizeUpdate(p) ==
    /\ At(p, "finalize", "update")
    /\ \E ok \in BOOLEAN :
         LET r == proc[p] IN
         /\ credits' = WriteBalance(r.user, r.existing, r.add, ok)
         /\ proc' = [proc EXCEPT ![p] =
                       Done([r EXCEPT !.delta =
                               IF WriteApplies(r.user, r.existing, ok)
                               THEN r.add ELSE 0], "200")]
    /\ UNCHANGED << ledger, cache, CONSUMED, bal0, sideVars, diskVars >>

(********************* POST /api/paypal/capture-order ********************)
\* the capture at PayPal is taken in this step
PaypalStart(p) ==
    /\ CanStart(p)
    /\ \E orderID \in BOOLEAN, user_id \in Users \cup {None},
          outcome \in {"COMPLETED", "PENDING", "throw"} :
         LET r == [IdleProc EXCEPT !.kind = "paypal"] IN
         proc' = [proc EXCEPT ![p] =
                    IF ~orderID THEN Done(r, "400")
                    ELSE IF outcome = "throw" THEN Done(r, "500")
                    ELSE IF outcome # "COMPLETED" THEN Done(r, "400")
                    ELSE IF user_id # None
                         THEN [r EXCEPT !.pc = "select", !.user = user_id,
                                        !.add = 1]
                    ELSE Done(r, "200")]
    /\ UNCHANGED << credits, ledger, cache, CONSUMED, bal0, sideVars, diskVars >>

PaypalSelect(p) ==
    /\ At(p, "paypal", "select")
    /\ \E ok \in BOOLEAN :
         proc' = [proc EXCEPT ![p].existing = SelectBalance(proc[p].user, ok),
                              ![p].pc = "update"]
    /\ UNCHANGED << credits, ledger, cache, CONSUMED, bal0, sideVars, diskVars >>

PaypalUpdate(p) ==
    /\ At(p, "paypal", "update")
    /\ \E ok \in BOOLEAN :
         LET r == proc[p] IN
         /\ credits' = WriteBalance(r.user, r.existing, r.add, ok)
         /\ proc' = [proc EXCEPT ![p] =
                       Done([r EXCEPT !.delta =
                               IF WriteApplies(r.user, r.existing, ok)
                               THEN r.add ELSE 0], "200")]
    /\ UNCHANGED << ledger, cache, CONSUMED, bal0, sideVars, diskVars >>

(************************ share links (cache-only) ***********************)
ShareKeys == (ValidVins \cup OldVins) \X Types

\* what a share request can send as vin and type
ShareVinInputs == {"", "v1", "V1", "V2"}
TypeInputs == {"carfax", "CARFAX"}

\* tokens a GET /view can name: the minted ones, and 0, which makeToken
\* never returns
Tokens == 0..MaxTokens

NoOut == [op |-> None, token |-> 0, status |-> None, body |-> ""]

\* SHARE_TOKENS[t]: the entries under the token t (none or one)
Meta(t) == {m \in SHARE_TOKENS : m.tok = t}

\* a token that is still good at its expiry time
Expired_Late(m, t) == m.exp < t

\* meta.exp <= Date.now()
Expired(m, t) == m.exp <= t

pruneShareTokens_KeepAll(tokens, t) == tokens

\* pruneShareTokens(): delete every entry whose time is up
pruneShareTokens(tokens, t) == {m \in tokens : ~Expired(m, t)}

\* a token for whatever was asked
ShareAllowed_Always(raw) == TRUE

\* if (!raw) return 404
ShareAllowed(raw) == raw # NoPayload

\* a share request that fetches what the cache lacks
ShareIssue_FetchOnMiss ==
    \E vin \in ShareVinInputs \ {""}, type \in TypeInputs,
       live \in Payloads :
        LET k == << toUpperCase(vin), toLowerCase(type) >> IN
        /\ minted < MaxTokens
        /\ k \in DOMAIN cache
        /\ cache' = IF readCache(k[1], k[2]) = NoPayload
                     THEN [cache EXCEPT ![k] = live] ELSE cache
        /\ minted' = minted + 1
        /\ SHARE_TOKENS' = SHARE_TOKENS \cup
              {[tok |-> minted + 1, vin |-> k[1], type |-> k[2],
                exp |-> now + SHARE_TTL]}
        /\ out' = [op |-> "share", token |-> minted + 1, status |-> "200",
                   body |-> ""]
        /\ UNCHANGED << proc, credits, ledger, CONSUMED, bal0, extraVars,
                    diskVars, now,
                        checkout, stripeSessions >>

\* POST /api/share: the handler has no await, it runs in one step
ShareIssue ==
    \E vin \in ShareVinInputs, type \in TypeInputs :
        LET raw == readCache(toUpperCase(vin), toLowerCase(type)) IN
        /\ IF vin = "" THEN
              /\ out' = [op |-> "share", token |-> 0, status |-> "400",
                         body |-> "vin required"]
              /\ UNCHANGED << SHARE_TOKENS, minted >>
           ELSE IF ~ShareAllowed(raw) THEN
              /\ out' = [op |-> "share", token |-> 0, status |-> "404",
                         body |-> "Report not cached yet. Open it once first."]
              /\ UNCHANGED << SHARE_TOKENS, minted >>
           ELSE
              /\ minted < MaxTokens
              /\ minted' = minted + 1
              /\ SHARE_TOKENS' = SHARE_TOKENS \cup
                    {[tok |-> minted + 1, vin |-> toUpperCase(vin),
                      type |-> toLowerCase(type), exp |-> now + SHARE_TTL]}
              /\ out' = [op |-> "share", token |-> minted + 1,
                         status |-> "200", body |-> ""]
        /\ UNCHANGED << proc, credits, ledger, cache, CONSUMED, bal0, extraVars,
                    diskVars, now,
                        checkout, stripeSessions >>

\* the answer of GET /view/:token once the expired entries are pruned
ViewResp(tokens, t) ==
    LET ms == {m \in tokens : m.tok = t} IN
    IF ms = {} \/ \E m \in ms : Expired(m, now)
    THEN [status |-> "404", body |-> "Link expired or invalid"]
    ELSE LET meta == CHOOSE m \in ms : TRUE
             raw == readCache(meta.vin, meta.type)
         IN  IF raw = NoPayload
             THEN [status |-> "404", body |-> "Report not found in cache"]
             ELSE IF decodeKind(raw) \in {"html", "pdf"}
             THEN [status |-> "200", body |-> decodeKind(raw)]
             ELSE [status |-> "500", body |-> "Unsupported report content."]

\* GET /view/:token: prune, look the token up, read the cache, send
ShareView ==
    \E t \in Tokens :
        LET pruned == pruneShareTokens(SHARE_TOKENS, now)
            r == ViewResp(pruned, t)
        IN  /\ SHARE_TOKENS' = pruned
            /\ out' = [op |-> "view", token |-> t, status |-> r.status,
                       body |-> r.body]
            /\ UNCHANGED << proc, credits, ledger, cache, CONSUMED, bal0, extraVars,
                    diskVars, now,
                            minted, checkout, stripeSessions >>

\* setInterval(pruneShareTokens, one hour)
PruneTimer ==
    /\ SHARE_TOKENS' = pruneShareTokens(SHARE_TOKENS, now)
    /\ UNCHANGED << proc, credits, ledger, cache, CONSUMED, bal0, extraVars,
                    diskVars, now,
                    minted, out, checkout, stripeSessions >>

\* time passes
Tick ==
    /\ now < MaxTime
    /\ now' = now + 1
    /\ UNCHANGED << proc, credits, ledger, cache, CONSUMED, bal0, extraVars,
                    diskVars,
                    SHARE_TOKENS, minted, out, checkout, stripeSessions >>

(******************* POST /api/create-checkout-session *******************)
\* what a checkout request can send as vin (none, two spellings of V1 that
\* validateVin accepts beside V1 itself, and one it refuses) and report_type
CheckoutVinInputs == {"", "V1", "v1", " V1", "BADFMT"}
CheckoutTypeInputs == TypeInputs \cup {None}

IdleCheckout == [pc |-> "idle", vin |-> "", type |-> "", intent |-> "",
                 resp |-> None]

\* The request arrives: validateVin, getUser (an answer of the auth service,
\* no state of this model), the cache check, the intent; then the call of
\* sessions.create is under way.
CheckoutStart ==
    /\ checkout.pc # "create"
    /\ \E vin \in CheckoutVinInputs, report_type \in CheckoutTypeInputs,
          isTenPack \in BOOLEAN :
         LET type == toLowerCase(IF report_type = None THEN "carfax"
                                 ELSE report_type)
             r == [IdleCheckout EXCEPT !.vin = vin]
         IN  checkout' =
               IF vin # "" /\ ~validateVin(vin).ok
               THEN [r EXCEPT !.pc = "done", !.resp = "422 invalid_vin"]
               ELSE IF vin # "" /\ readCache(toUpperCase(vin), type) # NoPayload
               THEN [r EXCEPT !.pc = "done", !.type = type,
                              !.resp = "409 alreadyCached"]
               ELSE [r EXCEPT !.pc = "create",
                              !.type = IF vin # "" THEN type ELSE "",
                              !.intent = IF vin # "" THEN "buy_report"
                                         ELSE IF isTenPack
                                         THEN "buy_credits_bundle"
                                         ELSE "buy_credit_single"]
    /\ UNCHANGED << proc, credits, ledger, cache, CONSUMED, bal0, extraVars,
                    diskVars,
                    SHARE_TOKENS, now, minted, out, stripeSessions >>

\* sessions.create returns the session, or throws (500 Stripe error)
CheckoutCreate ==
    /\ checkout.pc = "create"
    /\ \E ok \in BOOLEAN :
         IF ok THEN
            /\ stripeSessions' = stripeSessions \cup
                  {[vin |-> checkout.vin, intent |-> checkout.intent]}
            /\ checkout' = [checkout EXCEPT !.pc = "done", !.resp = "200"]
         ELSE
            /\ checkout' = [checkout EXCEPT !.pc = "done", !.resp = "500"]
            /\ UNCHANGED stripeSessions
    /\ UNCHANGED << proc, credits, ledger, cache, CONSUMED, bal0, extraVars,
                    diskVars,
                    SHARE_TOKENS, now, minted, out >>

(***************************** specification *****************************)
IdleAdmin ==
    [pc |-> "idle", vin |-> "", type |-> "", as |-> "html", resp |-> None]
NoDecoded == Decoded(None, << >>, << >>, "")

\* neither loop has run: a result of a loop is 0 or more
NoGrant == [webhook |-> -1, finalize |-> -1]

\* no share token, no checkout, no consumed receipt: the state of a first
\* start
QuietInit ==
    /\ SHARE_TOKENS = {}
    /\ now = 0
    /\ minted = 0
    /\ out = NoOut
    /\ checkout = IdleCheckout
    /\ stripeSessions = {}
    /\ admin = IdleAdmin
    /\ decoded = NoDecoded
    /\ granted = NoGrant
    /\ CONSUMED_FILE = {}

\* the model does not say how the provider answers: a fetch has any outcome
AnswerInit == answer = NoAnswer

\* ... on a good disk, with no payload at the decoder and no session at the
\* credit loops
SideInit ==
    /\ QuietInit
    /\ AnswerInit
    /\ blob = << >>
    /\ lineItems = << >>
    /\ disk = "ok"

Init ==
    /\ SideInit
    /\ proc = [p \in Procs |-> IdleProc]
    /\ credits \in [Users -> {NoRow, Row(InitBal)}]
    /\ ledger = [u \in Users |->
                   [purchase |-> Balance(u), spend |-> 0, refund |-> 0]]
    /\ cache = [k \in Keys |-> NoPayload]
    /\ CONSUMED = {}
    /\ bal0 = [u \in Users |-> Balance(u)]

Next ==
    \E p \in Procs :
        \/ ReportStart(p)
        \/ ReportVerify(p)
        \/ ReportRpc(p)
        \/ ReportFetch(p)
        \/ WebhookStart(p)
        \/ WebhookSelect(p)
        \/ WebhookUpdate(p)
        \/ WebhookFetch(p)
        \/ FinalizeStart(p)
        \/ FinalizeSelect(p)
        \/ FinalizeUpdate(p)
        \/ PaypalStart(p)
        \/ PaypalSelect(p)
        \/ PaypalUpdate(p)

Spec == Init /\ [][Next]_vars

(******************* report requests of one paying user ******************)
\* the user holds the credit of one single purchase; the cache is empty
E2EInit ==
    /\ SideInit
    /\ proc = [p \in Procs |-> IdleProc]
    /\ credits = [u \in Users |-> Row(CREDITS_PER_SINGLE)]
    /\ ledger = [u \in Users |->
                   [purchase |-> Balance(u), spend |-> 0, refund |-> 0]]
    /\ cache = [k \in Keys |-> NoPayload]
    /\ CONSUMED = {}
    /\ bal0 = [u \in Users |-> Balance(u)]

ReportNext ==
    \E p \in Procs :
        \/ ReportStart(p)
        \/ ReportVerify(p)
        \/ ReportRpc(p)
        \/ ReportFetch(p)

E2ESpec == E2EInit /\ [][ReportNext]_vars

(************* the cache-only endpoints beside a report request **********)
\* one report request at most (slot 1)
OneReport ==
    \E p \in {1} :
        \/ ReportStart(p)
        \/ ReportVerify(p)
        \/ ReportRpc(p)
        \/ ReportFetch(p)

\* the cache directory holds the report of an old VIN; the user has credits
ShareInit ==
    /\ SideInit
    /\ proc = [p \in Procs |-> IdleProc]
    /\ credits = [u \in Users |-> Row(InitBal)]
    /\ ledger = [u \in Users |->
                   [purchase |-> Balance(u), spend |-> 0, refund |-> 0]]
    /\ cache \in {c \in [ShareKeys -> Payloads \cup {NoPayload}] :
                    \A k \in ShareKeys :
                        (k[1] \in OldVins) <=> (c[k] # NoPayload)}
    /\ CONSUMED = {}
    /\ bal0 = [u \in Users |-> Balance(u)]

ShareNext ==
    \/ OneReport
    \/ ShareIssue
    \/ ShareView
    \/ PruneTimer
    \/ Tick

ShareSpec == ShareInit /\ [][ShareNext]_vars

\* the share endpoints and the hourly timer, which runs as long as the
\* process does
PruneNext ==
    \/ ShareIssue
    \/ ShareView
    \/ PruneTimer
    \/ Tick

PruneSpec == ShareInit /\ [][PruneNext]_vars /\ WF_vars(PruneTimer)

CheckoutNext ==
    \/ OneReport
    \/ CheckoutStart
    \/ CheckoutCreate

CheckoutSpec == Init /\ [][CheckoutNext]_vars

\* ---- GET /api/admin/open ----

AdminVinInputs == {"", "v1", "V1"}

\* the answer of admin open for a payload
AdminServe(raw, as, convOk) ==
    IF as = "pdf" THEN
        IF decodeKind(raw) = "pdf" THEN "200"
        ELSE IF decodeKind(raw) = "html"
             THEN (IF convOk THEN "200" ELSE "502 pdf convert failed")
        ELSE "500 unsupported"
    ELSE IF decodeKind(raw) \in {"html", "pdf"} THEN "200"
    ELSE "500 unsupported"

AdminDone(r, resp) == [r EXCEPT !.pc = "done", !.resp = resp]

\* requireAdmin, the query, the cache read; the PDF conversion is a read at
\* the provider, taken in this step
AdminOpenStart ==
    /\ admin.pc = "idle"
    /\ \E authed \in BOOLEAN, v \in AdminVinInputs, t \in TypeInputs,
          as \in {"html", "pdf"}, fetchLive \in BOOLEAN,
          convOk \in BOOLEAN, readOk \in DiskOutcomes :
         LET vin == toUpperCase(v)
             type == toLowerCase(t)
             raw == readCache(vin, type)
             r == [IdleAdmin EXCEPT !.vin = vin, !.type = type, !.as = as]
         IN  admin' =
               IF ~authed THEN AdminDone(IdleAdmin, "401 unauthorized")
               ELSE IF vin = "" THEN AdminDone(IdleAdmin, "400 vin required")
               ELSE IF raw # NoPayload /\ ~readOk
               THEN AdminDone(r, "500 admin open error")
               ELSE IF raw = NoPayload /\ fetchLive
               THEN [r EXCEPT !.pc = "afetch"]
               ELSE IF raw = NoPayload THEN AdminDone(r, "404 not cached")
               ELSE AdminDone(r, AdminServe(raw, as, convOk))
    /\ UNCHANGED << proc, credits, ledger, cache, CONSUMED, bal0,
                    SHARE_TOKENS, now, minted, out, checkout, stripeSessions,
                    blob, decoded, lineItems, granted,
                    answer, diskVars >>

\* fetchAndCacheReport returns or throws; the entry is read back and served
AdminFetch ==
    /\ admin.pc = "afetch"
    /\ \E ok \in BOOLEAN, live \in Payloads, writeOk \in BOOLEAN,
          convOk \in BOOLEAN, readOk \in DiskOutcomes :
         LET k == << admin.vin, admin.type >> IN
         IF ok /\ writeOk THEN
            /\ cache' = [cache EXCEPT ![k] = live]
            /\ admin' = AdminDone(admin,
                           IF readOk THEN AdminServe(live, admin.as, convOk)
                           ELSE "500 admin open error")
         ELSE
            /\ admin' = AdminDone(admin, "500 admin open error")
            /\ UNCHANGED cache
    /\ UNCHANGED << proc, credits, ledger, CONSUMED, bal0, SHARE_TOKENS, now,
                    minted, out, checkout, stripeSessions, blob, decoded,
                    lineItems, granted, answer, diskVars >>

\* a report request and a webhook event meet the admin request
CacheSlots == {1, 2}

\* the operations that read or write the cache
CacheNext ==
    \/ \E p \in CacheSlots :
          \/ ReportStart(p)
          \/ ReportVerify(p)
          \/ ReportRpc(p)
          \/ ReportFetch(p)
          \/ WebhookStart(p)
          \/ WebhookSelect(p)
          \/ WebhookUpdate(p)
          \/ WebhookFetch(p)
    \/ AdminOpenStart
    \/ AdminFetch

CacheSpec == Init /\ [][CacheNext]_vars

\* the VINs asked of a server that is restarted
RestartVins == {"V1", "V2"}

RestartKeys == RestartVins \X Types

ReportStartAny(p) == ReportArrive(p, RestartVins)

\* the load of the consumed file at module start: an error of the read is
\* swallowed and leaves the empty set
loadConsumed(readOk) == IF readOk THEN CONSUMED_FILE ELSE {}

\* The process ends and is started again: the requests in flight get no
\* answer, the memory of the process is lost, its files and the balances
\* stay.
Restart ==
    /\ \E p \in Procs : proc[p].pc = "done"
    /\ proc' = [p \in Procs |->
                  IF proc[p].pc \in {"idle", "done"} THEN proc[p]
                  ELSE Done(proc[p], None)]
    /\ \E readOk \in DiskOutcomes : CONSUMED' = loadConsumed(readOk)
    /\ UNCHANGED << credits, ledger, cache, bal0, sideVars, diskVars >>

\* a first start with an empty cache, on a good or a faulty disk
RestartInit ==
    /\ QuietInit
    /\ AnswerInit
    /\ blob = << >>
    /\ lineItems = << >>
    /\ disk \in {"ok", "faulty"}
    /\ proc = [p \in Procs |-> IdleProc]
    /\ credits = [u \in Users |-> Row(InitBal)]
    /\ ledger = [u \in Users |->
                   [purchase |-> Balance(u), spend |-> 0, refund |-> 0]]
    /\ cache = [k \in RestartKeys |-> NoPayload]
    /\ CONSUMED = {}
    /\ bal0 = [u \in Users |-> Balance(u)]

RestartNext ==
    \/ \E p \in Procs :
          \/ ReportStartAny(p)
          \/ ReportVerify(p)
          \/ ReportRpc(p)
          \/ ReportFetch(p)
    \/ Restart

\* the report handler of a server that may be restarted
RestartSpec == RestartInit /\ [][RestartNext]_vars

\* the provider changes how it answers
Provider ==
    /\ \E a \in Answers : answer' = a
    /\ UNCHANGED << proc, credits, ledger, cache, CONSUMED, bal0, SHARE_TOKENS,
                    now, minted, out, checkout, stripeSessions, admin, blob,
                    decoded, lineItems, granted, diskVars >>

FetchInit ==
    /\ QuietInit
    /\ answer \in Answers
    /\ blob = << >>
    /\ lineItems = << >>
    /\ disk = "ok"
    /\ proc = [p \in Procs |-> IdleProc]
    /\ credits = [u \in Users |-> Row(InitBal)]
    /\ ledger = [u \in Users |->
                   [purchase |-> Balance(u), spend |-> 0, refund |-> 0]]
    /\ cache = [k \in Keys |-> NoPayload]
    /\ CONSUMED = {}
    /\ bal0 = [u \in Users |-> Balance(u)]

FetchNext ==
    \/ \E p \in {1} :
          \/ ReportStart(p)
          \/ ReportVerify(p)
          \/ ReportRpc(p)
          \/ ReportFetchAnswered(p)
    \/ Provider

\* one report request against a provider whose answers are known
FetchSpec == FetchInit /\ [][FetchNext]_vars

\* the webhook's loop runs over the line items
WebhookCredits ==
    /\ granted' = [granted EXCEPT !.webhook = CreditsFrom(lineItems, 1)]
    /\ UNCHANGED << proc, credits, ledger, cache, CONSUMED, bal0, SHARE_TOKENS,
                    now, minted, out, checkout, stripeSessions, admin, blob,
                    decoded, lineItems, answer, diskVars >>

\* the loop of finalize runs over the line items
FinalizeCredits ==
    /\ granted' = [granted EXCEPT
                     !.finalize = FinalizeCreditsFrom(lineItems, 1)]
    /\ UNCHANGED << proc, credits, ledger, cache, CONSUMED, bal0, SHARE_TOKENS,
                    now, minted, out, checkout, stripeSessions, admin, blob,
                    decoded, lineItems, answer, diskVars >>

\* any list of line items is at the two loops
CreditsInit ==
    /\ QuietInit
    /\ AnswerInit
    /\ blob = << >>
    /\ lineItems \in ItemLists
    /\ disk = "ok"
    /\ proc = [p \in Procs |-> IdleProc]
    /\ credits = [u \in Users |-> Row(InitBal)]
    /\ ledger = [u \in Users |->
                   [purchase |-> Balance(u), spend |-> 0, refund |-> 0]]
    /\ cache = [k \in Keys |-> NoPayload]
    /\ CONSUMED = {}
    /\ bal0 = [u \in Users |-> Balance(u)]

CreditsNext == WebhookCredits \/ FinalizeCredits

\* the two credit loops alone, on every list of ItemLists
CreditsSpec == CreditsInit /\ [][CreditsNext]_vars

\* decodeReportBase64 is called with the payload
Decode ==
    /\ decoded' = decodeReportBase64(blob)
    /\ UNCHANGED << proc, credits, ledger, cache, CONSUMED, bal0, SHARE_TOKENS,
                    now, minted, out, checkout, stripeSessions, admin, blob,
                    lineItems, granted, answer, diskVars >>

\* any payload of RawInputs is at the decoder
DecInit ==
    /\ QuietInit
    /\ AnswerInit
    /\ blob \in RawInputs
    /\ lineItems = << >>
    /\ disk = "ok"
    /\ proc = [p \in Procs |-> IdleProc]
    /\ credits = [u \in Users |-> Row(InitBal)]
    /\ ledger = [u \in Users |->
                   [purchase |-> Balance(u), spend |-> 0, refund |-> 0]]
    /\ cache = [k \in Keys |-> NoPayload]
    /\ CONSUMED = {}
    /\ bal0 = [u \in Users |-> Balance(u)]

DecNext == Decode

\* the decoder alone, on every payload of RawInputs
DecSpec == DecInit /\ [][DecNext]_vars

TypeOK ==
    /\ \A u \in Users : credits[u].balance \in Int
    /\ CONSUMED \subseteq Receipts
    /\ \A k \in Keys : cache[k] \in Payloads \cup {NoPayload}

(******************************* claims **********************************)
Reports == {p \in Procs : proc[p].kind = "report"}

FetchErrors == {"422 remote_reject", "502 provider_error"}

\* p is the only request that has arrived
OnlyRequest(p) == \A q \in Procs \ {p} : proc[q].pc = "idle"

\* the requests that a receipt authorized to a live fetch
AuthorizedBy(rc) ==
    {p \in Reports : proc[p].path = "receipt" /\ proc[p].receipt = rc}

\* the requests of user u for a key that took a credit
DebitedFor(u, k) ==
    {p \in Reports : /\ proc[p].path = "credit"
                     /\ proc[p].user = u
                     /\ << proc[p].vin, proc[p].type >> = k}

RECURSIVE SumDelta(_, _)
SumDelta(u, n) ==
    IF n = 0 THEN 0
    ELSE (IF proc[n].user = u THEN proc[n].delta ELSE 0) + SumDelta(u, n - 1)

\* C1: a receipt id authorizes at most one request to a live fetch, however
\* the requests presenting it interleave.
C1_AtMostOnceReceipt ==
    \A rc \in Receipts : Cardinality(AuthorizedBy(rc)) <= 1

\* C2: a step of a request that found its (VIN, type) in the cache at the
\* cache check changes no credit balance, no ledger entry and not the
\* consumed set.
C2_CacheSkipBilling ==
    [][\A p \in Procs :
          (proc'[p] # proc[p] /\ proc'[p].kind = "report" /\ proc'[p].hit)
          => UNCHANGED << credits, ledger, CONSUMED >>]_vars

\* a request was served from the cache that another request, which paid
\* with a credit or a receipt, had filled
C2_Witness ==
    \E p \in Reports, q \in Reports :
        /\ proc[p].hit /\ proc[p].pc = "done" /\ proc[p].resp = "200"
        /\ proc[q].path # None /\ proc[q].resp = "200"

\* C3: when a request that took a credit ends with a failed fetch, the
\* balance is the one before the request and a refund entry offsets the
\* spend entry.
C3_CreditConservation ==
    \A p \in Reports :
        (/\ OnlyRequest(p)
         /\ proc[p].pc = "done"
         /\ proc[p].path = "credit"
         /\ proc[p].resp \in FetchErrors)
        => /\ Balance(proc[p].user) = bal0[proc[p].user]
           /\ ledger[proc[p].user].refund = ledger[proc[p].user].spend

\* C4: when a request that consumed a receipt ends with a failed fetch, the
\* receipt is no longer in the consumed set.
C4_ReceiptRestoration ==
    \A p \in Reports :
        (/\ OnlyRequest(p)
         /\ proc[p].pc = "done"
         /\ proc[p].path = "receipt"
         /\ proc[p].resp \in FetchErrors)
        => proc[p].receipt \notin CONSUMED

\* C5: after deliveries of the same checkout.session.completed event, and
\* nothing else, the balance is at most the balance of one delivery.
C5_IdempotentWebhook ==
    \A s \in Sessions :
        (/\ SessionUserId(s) # None
         /\ \A p \in Procs :
               \/ proc[p].pc = "idle"
               \/ /\ proc[p].kind = "webhook" /\ proc[p].pc = "done"
                  /\ proc[p].sess = s /\ proc[p].resp = "200")
        => Balance(SessionUserId(s)) <= bal0[SessionUserId(s)] + creditsToAdd(s)

\* C6: the webhook and finalize together write the credits of one session
\* to the balance at most once.
C6_SessionCreditedOnce ==
    \A s \in Sessions :
        Cardinality({p \in Procs : /\ proc[p].kind \in {"webhook", "finalize"}
                                   /\ proc[p].sess = s
                                   /\ proc[p].delta > 0}) <= 1

\* C7: the balance is the initial balance plus the deltas of all balance
\* mutations that were applied.
C7_NoLostUpdates ==
    \A u \in Users : Balance(u) = bal0[u] + SumDelta(u, MaxProcs)

\* C8: over all requests of one caller for one (VIN, type), at most one
\* credit is taken.
C8_NoDoubleBilling ==
    \A u \in Users, k \in Keys : Cardinality(DebitedFor(u, k)) <= 1

\* C9: for every user the deltas of the ledger entries sum to the balance.
C9_Reconciliation ==
    \A u \in Users : LedgerSum(u) = Balance(u)

\* C10: every balance is a non-negative integer, and a request whose spend
\* was rejected took nothing.
C10_NonNegative ==
    /\ \A u \in Users : credits[u].balance \in Nat
    /\ \A p \in Reports :
          proc[p].resp = "402 insufficient_credits"
          => proc[p].path = None /\ proc[p].delta = 0

\* a spend was rejected at balance zero, and another request added credits
C10_Witness ==
    \E p \in Reports, q \in Procs :
        /\ proc[p].resp = "402 insufficient_credits"
        /\ proc[q].kind \in {"webhook", "finalize", "paypal"}
        /\ proc[q].delta > 0
        /\ Balance(proc[q].user) > 0

\* C11: on a cache miss with live fetch allowed a request takes one path:
\* with a receipt only the receipt path (the caller's identity is not even
\* asked for, no credit is taken), without a receipt and signed in only the
\* credit path, with neither it is answered 401 purchase_required.
C11_OnePathPerRequest ==
    \A p \in Reports :
        /\ proc[p].receipt # None
           => /\ proc[p].user = None /\ proc[p].delta = 0
              /\ proc[p].path \in {None, "receipt"}
        /\ proc[p].path = "credit"
           => /\ proc[p].receipt = None /\ proc[p].user # None
              /\ proc[p].payment = None
        /\ proc[p].resp = "401 purchase_required"
           => /\ proc[p].receipt = None /\ proc[p].user = None
              /\ proc[p].path = None
        /\ (/\ proc[p].pc = "done" /\ proc[p].vin # ""
            /\ ~proc[p].hit /\ proc[p].allowLive
            /\ proc[p].receipt = None /\ proc[p].user = None)
           => proc[p].resp = "401 purchase_required"

\* one request was authorized by a receipt while the user's credits stayed
\* untouched, another by a credit
C11_Witness ==
    \E p \in Reports, q \in Reports :
        /\ proc[p].path = "receipt" /\ proc[p].pc = "done"
        /\ proc[q].path = "credit" /\ proc[q].delta = -1

\* C12: a request whose VIN fails validation is answered 422 invalid_vin in
\* its first step, which changes no balance, no ledger entry, not the
\* consumed set and not the cache; only a valid VIN gets as far as the
\* cache check, the payment verification, the debit or the fetch.
C12_InvalidVinBeforeBilling ==
    /\ [](\A p \in Reports :
            /\ (\/ proc[p].pc \in {"verify", "rpc", "fetch"}
                \/ proc[p].path # None \/ proc[p].hit
                \/ proc[p].delta # 0 \/ proc[p].payment # None)
               => proc[p].vin \in ValidVins
            /\ proc[p].resp = "422 invalid_vin"
               => /\ proc[p].path = None /\ proc[p].delta = 0
                  /\ proc[p].payment = None /\ proc[p].receipt = None)
    /\ [][\A p \in Procs :
            (proc'[p].resp = "422 invalid_vin" /\ proc[p].resp = None)
            => /\ proc[p].pc = "idle"
               /\ UNCHANGED << credits, ledger, cache, CONSUMED >>]_vars

\* a request was answered 422 invalid_vin beside one that took a credit
C12_Witness ==
    \E p \in Reports, q \in Reports :
        /\ proc[p].resp = "422 invalid_vin"
        /\ proc[q].path = "credit"

\* C13: a request that enters the receipt path with a receipt of the
\* consumed set is answered 409 receipt_used (and only such a request is),
\* and a receipt the processor reports as not paid is answered 402
\* payment_incomplete without authorizing anything.
C13_ReceiptDenials ==
    /\ [](\A p \in Reports :
            /\ proc[p].resp = "409 receipt_used"
               => /\ proc[p].receipt \in CONSUMED
                  /\ proc[p].payment = None /\ proc[p].path = None
            /\ proc[p].payment = "unpaid"
               => /\ proc[p].resp = "402 payment_incomplete"
                  /\ proc[p].path = None)
    /\ [][\A p \in Procs :
            (/\ proc[p].pc = "idle" /\ proc'[p].kind = "report"
             /\ proc'[p].receipt \in CONSUMED)
            => proc'[p].resp = "409 receipt_used"]_vars

\* a request was answered 409 receipt_used for the receipt that another
\* request had consumed
C13_Witness ==
    \E p \in Reports, q \in Reports :
        /\ proc[p].resp = "409 receipt_used"
        /\ proc[q].path = "receipt" /\ proc[q].receipt = proc[p].receipt

\* C14: a verification that threw is answered 400 receipt_invalid, and 402
\* payment_incomplete is the answer only when the processor answered and
\* reported the payment as not paid.
C14_ReceiptInvalidDistinct ==
    \A p \in Reports :
        /\ proc[p].payment = "throw" => proc[p].resp = "400 receipt_invalid"
        /\ proc[p].resp = "402 payment_incomplete"
           => proc[p].payment = "unpaid"
        /\ proc[p].resp = "400 receipt_invalid" => proc[p].payment = "throw"

\* one verification threw and another was answered "not paid"
C14_Witness ==
    \E p \in Reports, q \in Reports :
        /\ proc[p].payment = "throw" /\ proc[p].pc = "done"
        /\ proc[q].payment = "unpaid" /\ proc[q].pc = "done"

\* C15: the return of the rpc either authorizes the request, with the
\* balance lower by exactly 1 and one more spend entry, or answers 402
\* insufficient_credits and leaves balance and ledger as they were; with a
\* balance below 1 it is the latter.
C15_CreditPathDebit ==
    [][\A p \in Procs :
          (proc[p].pc = "rpc" /\ proc'[p] # proc[p])
          => LET u == proc[p].user IN
             \/ /\ proc'[p].path = "credit" /\ proc'[p].pc = "fetch"
                /\ Balance(u) >= 1
                /\ credits'[u] = Row(Balance(u) - 1)
                /\ ledger'[u] = [ledger[u] EXCEPT !.spend = @ + 1]
             \/ /\ proc'[p].resp = "402 insufficient_credits"
                /\ proc'[p].path = None
                /\ UNCHANGED << credits, ledger >>]_vars

\* one spend went through and one was rejected
C15_Witness ==
    \E p \in Reports, q \in Reports :
        /\ proc[p].path = "credit" /\ proc[p].delta = -1
        /\ proc[q].resp = "402 insufficient_credits"

\* the request took a credit and came through fetch and cache write
PaidByCredit(p) ==
    /\ proc[p].kind = "report" /\ proc[p].pc = "done"
    /\ proc[p].path = "credit" /\ proc[p].resp \notin FetchErrors

\* the answer sends the report whenever the payload decodes (a PDF asked of
\* an HTML payload needs the provider's conversion)
Served(resp, raw) ==
    /\ raw # NoPayload
    /\ raw \in {"html", "pdf"} => resp \in {"200", "502 pdf_convert_failed"}
    /\ raw = "pdf" => resp = "200"

\* C16: a user with balance 1 and an empty cache: the first request for a
\* valid VIN, its debit, fetch and cache write succeeding, leaves balance 0,
\* the report in the cache and served; a request for the same (VIN, type)
\* arriving after it is served from the cache in one step that leaves the
\* balance at 0.
C16_EndToEnd ==
    /\ [](\A p \in Procs :
            (PaidByCredit(p) /\ OnlyRequest(p))
            => LET u == proc[p].user
                   k == << proc[p].vin, proc[p].type >>
               IN  /\ Balance(u) = bal0[u] - 1
                   /\ Served(proc[p].resp, cache[k]))
    /\ [](\A p \in Procs : \A q \in Procs \ {p} :
            (/\ PaidByCredit(p)
             /\ \A o \in Procs \ {p, q} : proc[o].pc = "idle"
             /\ proc[q].kind = "report" /\ proc[q].pc = "done"
             /\ proc[q].vin = proc[p].vin /\ proc[q].type = proc[p].type
             /\ proc[q].hit)
            => /\ Balance(proc[p].user) = bal0[proc[p].user] - 1
               /\ proc[q].path = None /\ proc[q].delta = 0)
    /\ [][\A p \in Procs : \A q \in Procs \ {p} :
            (/\ PaidByCredit(p)
             /\ proc[q].pc = "idle" /\ proc'[q].kind = "report"
             /\ proc'[q].vin = proc[p].vin /\ proc'[q].type = proc[p].type)
            => /\ proc'[q].hit /\ proc'[q].pc = "done"
               /\ Served(proc'[q].resp, cache[<< proc[p].vin, proc[p].type >>])
               /\ UNCHANGED << credits, ledger, cache, CONSUMED >>]_vars

\* the first request took the user's only credit and was served, the second
\* was served from the cache, and the balance is 0
C16_Witness ==
    \E p \in Procs : \E q \in Procs \ {p} :
        /\ PaidByCredit(p) /\ proc[p].resp = "200"
        /\ bal0[proc[p].user] = 1 /\ Balance(proc[p].user) = 0
        /\ proc[q].kind = "report" /\ proc[q].hit /\ proc[q].resp = "200"
        /\ proc[q].vin = proc[p].vin

\* the step is a POST /api/share or a GET /view/:token
ShareStep(op) == out' # out /\ out'.op = op

\* C17: a share request stores a token only for a (VIN, type) the cache
\* holds at that moment; a request answered 404 (or 400) stores none, and
\* the token of a 200 is the one stored.
C17_ShareOnlyCached ==
    [][/\ \A m \in SHARE_TOKENS' \ SHARE_TOKENS :
             /\ << m.vin, m.type >> \in DOMAIN cache
             /\ cache[<< m.vin, m.type >>] # NoPayload
       /\ (ShareStep("share") /\ out'.status # "200")
          => (SHARE_TOKENS' = SHARE_TOKENS /\ minted' = minted)
       /\ (ShareStep("share") /\ out'.status = "200")
          => \E m \in SHARE_TOKENS' \ SHARE_TOKENS : m.tok = out'.token
      ]_vars

\* a share request for a VIN not in the cache was answered 404 after one
\* for the cached VIN had got its token
C17_Witness ==
    /\ out.op = "share" /\ out.status = "404"
    /\ \E m \in SHARE_TOKENS : readCache(m.vin, m.type) # NoPayload
    /\ \E k \in ShareKeys : cache[k] = NoPayload

\* C18: a step that answers a share or view request, or changes the token
\* store, leaves every balance, the ledger, the consumed set and the cache
\* as they were and starts no request at the provider.
C18_ShareNoBilling ==
    [][(out' # out \/ SHARE_TOKENS' # SHARE_TOKENS \/ minted' # minted)
       => UNCHANGED << proc, credits, ledger, cache, CONSUMED >>]_vars

\* a token was resolved to its report after a report request had taken a
\* credit
C18_Witness ==
    /\ out.op = "view" /\ out.status = "200"
    /\ \E p \in Reports : proc[p].path = "credit" /\ proc[p].delta = -1
    /\ \E m \in SHARE_TOKENS : m.tok = out.token

C20_AlreadyCached ==
    [][(/\ checkout' # checkout /\ checkout.pc # "create"
        /\ checkout'.vin # ""
        /\ validateVin(checkout'.vin).ok
        /\ readCache(validateVin(checkout'.vin).vin, checkout'.type)
              # NoPayload)
       => /\ checkout'.resp = "409 alreadyCached"
          /\ checkout'.pc = "done"]_vars

-----------------------------------------------------------------------------
\* The webhook's signature check

Webhooks == {p \in Procs : proc[p].kind = "webhook"}

\* C21: an event whose signature was made with neither the live nor the test
\* secret is answered 400 at once and changes no balance and no cache entry;
\* a webhook request that reads or writes a balance, fetches a report or has
\* credited a balance carries a signature that is not forged.
C21_UnverifiedWebhook ==
    /\ [](\A p \in Webhooks :
            /\ proc[p].forged =>
                  /\ proc[p].pc = "done"
                  /\ proc[p].resp = "400"
                  /\ proc[p].sess = None
                  /\ proc[p].delta = 0
            /\ (proc[p].pc \in {"select", "update", "wfetch"}
                \/ proc[p].delta # 0) => ~proc[p].forged)
    /\ [][\A p \in Procs :
            (proc'[p] # proc[p] /\ proc'[p].kind = "webhook"
             /\ proc'[p].forged)
            => /\ credits' = credits
               /\ ledger' = ledger
               /\ cache' = cache]_vars

\* a forged event was refused beside a verified one that credited a balance
C21_Witness ==
    \E p \in Webhooks : \E q \in Webhooks :
       /\ proc[p].forged /\ proc[p].resp = "400"
       /\ ~proc[q].forged /\ proc[q].delta > 0 /\ proc[q].resp = "200"
       /\ credits["u1"].balance > InitBal

-----------------------------------------------------------------------------
\* The content decoder

IsGzip(buf) == Len(buf) >= 2 /\ buf[1] = "1f" /\ buf[2] = "8b"
IsPdf(buf) == Len(buf) >= 1 /\ buf[1] = "%PDF-"

\* C22: decodeReportBase64 takes the first rule that matches: gzip magic
\* bytes give html with the decompressed text, or unknown with the error flag
\* when decompression fails; otherwise the PDF prefix gives pdf with the bytes
\* unchanged; otherwise an HTML tag within the sniffing window gives html with
\* the text unchanged; otherwise unknown.
C22_DecoderRules ==
    decoded # NoDecoded =>
       LET buf == BufferFrom(blob)
           body == SubSeq(buf, 3, Len(buf))
           inflates == Len(body) > 0
                       /\ \A i \in 1..Len(body) : body[i] \in {"z1", "z2"}
       IN  IF IsGzip(buf)
           THEN IF inflates
                THEN /\ decoded.kind = "html"
                     /\ decoded.html = [i \in 1..Len(body) |-> Inflate(body[i])]
                     /\ decoded.error = ""
                ELSE /\ decoded.kind = "unknown"
                     /\ decoded.error = "gunzip-failed"
                     /\ decoded.buffer = buf
           ELSE IF IsPdf(buf)
           THEN decoded.kind = "pdf" /\ decoded.buffer = buf
           ELSE IF \E i \in 1..SniffLen : i <= Len(buf) /\ buf[i] = "<html>"
           THEN decoded.kind = "html" /\ decoded.html = toStringUtf8(buf)
           ELSE /\ decoded.kind = "unknown" /\ decoded.buffer = buf
                /\ decoded.error = ""

\* a PDF that holds an HTML tag inside the sniffing window was classified pdf
C22_Witness ==
    /\ decoded.kind = "pdf"
    /\ Len(decoded.buffer) >= 2
    /\ decoded.buffer[2] = "<html>"

-----------------------------------------------------------------------------
\* Authorization before the upstream fetch

\* the answers of POST /api/report that deny the entitlement
Denials ==
    {"401 purchase_required", "402 payment_incomplete",
     "402 insufficient_credits", "409 receipt_used", "400 receipt_invalid"}

\* the entitlement of request p is on record
Entitled(p) ==
    \/ /\ proc[p].path = "receipt" /\ proc[p].payment = "paid"
       /\ proc[p].receipt \in CONSUMED
    \/ /\ proc[p].path = "credit" /\ proc[p].delta = -1

\* C23: a request whose upstream fetch is due or has been made has its
\* entitlement on record; a request answered 401 purchase_required, 402,
\* 409 receipt_used or 400 receipt_invalid is answered from the gate, the
\* receipt lookup or the debit, has never been authorized to a fetch, and the
\* step that answers it writes no cache entry.
C23_NoFetchBeforeEntitlement ==
    /\ [](\A p \in Reports :
            /\ proc[p].pc = "fetch" => Entitled(p)
            /\ proc[p].resp \in FetchErrors => Entitled(p)
            /\ proc[p].resp \in Denials
                  => proc[p].pc = "done" /\ proc[p].path = None)
    /\ [][\A p \in Procs :
            (proc'[p] # proc[p] /\ proc'[p].kind = "report"
             /\ proc'[p].resp \in Denials)
            => /\ proc[p].pc \in {"idle", "verify", "rpc"}
               /\ cache' = cache]_vars

\* a denied request beside one that was authorized and is at its fetch
C23_Witness ==
    \E p \in Reports : \E q \in Reports :
       /\ proc[p].resp = "402 payment_incomplete"
       /\ proc[q].pc = "fetch" /\ proc[q].path = "receipt"
       /\ cache[<< proc[p].vin, proc[p].type >>] = NoPayload

\* C24: the step that brings a request to its upstream fetch is the step
\* that records its authorization (the receipt enters the consumed set, or
\* the credit is debited) and writes no cache entry; the step of the fetch
\* changes no authorization, and when it answers with anything but a fetch
\* error the cache holds the report for the request's key and the answer
\* sends that entry.
C24_SuccessPathOrder ==
    [][\A p \in Procs :
         /\ (proc[p].pc # "fetch" /\ proc'[p].pc = "fetch")
            => /\ cache' = cache
               /\ \/ /\ proc'[p].path = "receipt"
                     /\ proc'[p].receipt \in CONSUMED'
                  \/ /\ proc'[p].path = "credit"
                     /\ credits'[proc'[p].user].balance
                          = credits[proc'[p].user].balance - 1
         /\ (proc[p].kind = "report" /\ proc[p].pc = "fetch"
             /\ proc'[p] # proc[p])
            => /\ proc'[p].pc = "done"
               /\ credits' = credits /\ CONSUMED' = CONSUMED
               /\ proc'[p].resp \notin FetchErrors
                    => LET k == << proc[p].vin, proc[p].type >> IN
                       /\ cache'[k] # NoPayload
                       /\ Served(proc'[p].resp, cache'[k])]_vars

\* a request authorized by a receipt came through fetch and cache write
C24_Witness ==
    \E p \in Reports :
       /\ proc[p].pc = "done" /\ proc[p].path = "receipt"
       /\ proc[p].resp = "200"
       /\ proc[p].receipt \in CONSUMED
       /\ cache[<< proc[p].vin, proc[p].type >>] # NoPayload

-----------------------------------------------------------------------------
\* The consumed receipts across a restart

\* the receipts that authorized a fulfillment that was served
Fulfilled ==
    {proc[q].receipt : q \in {q \in Reports :
         /\ proc[q].pc = "done" /\ proc[q].path = "receipt"
         /\ proc[q].resp = "200"}}

\* C25: a request that needs authorization and presents a receipt that has
\* authorized a served fulfillment is answered 409 receipt_used, also when
\* the process was restarted in between.
C25_ConsumedAcrossRestart ==
    [][\A p \in Procs :
         (proc[p].pc = "idle" /\ proc'[p].kind = "report"
          /\ proc'[p].receipt \in Fulfilled)
         => proc'[p].resp = "409 receipt_used"]_vars

-----------------------------------------------------------------------------
\* One payment, one entitlement

\* the checkout sessions whose credits the webhook or finalize added
Credited ==
    {proc[p].sess : p \in {p \in Procs :
         /\ proc[p].kind \in {"webhook", "finalize"}
         /\ proc[p].delta > 0}}

\* C26: a checkout session whose credits were added to a balance by the
\* webhook or by finalize authorizes no live fetch as a one-time receipt.
C26_OnePaymentOneEntitlement ==
    \A s \in Credited : AuthorizedBy(s) = {}

-----------------------------------------------------------------------------
\* Failed balance writes

\* C27: a webhook or finalize request that answered 200 for a session with a
\* user and credits to add has added those credits to the balance.
C27_BalanceWriteFatal ==
    \A p \in Procs :
       (/\ proc[p].kind \in {"webhook", "finalize"}
        /\ proc[p].pc = "done" /\ proc[p].resp = "200"
        /\ proc[p].sess # None
        /\ SessionUserId(proc[p].sess) # None
        /\ creditsToAdd(proc[p].sess) > 0)
       => proc[p].delta = creditsToAdd(proc[p].sess)

-----------------------------------------------------------------------------
\* Failures of the cache files

\* C28: a request whose upstream fetch delivered the report is not answered
\* with a fetch error, whether or not the cache entry could be written.
C28_CacheWriteBestEffort ==
    \A p \in Reports :
       (proc[p].pc = "done" /\ proc[p].fetched)
       => proc[p].resp \notin FetchErrors

\* C29: a request that came as far as the cache read (its VIN is resolved
\* and valid) is never answered 500 server_error: a read that fails is taken
\* as an absent entry.
C29_CacheReadNeverFails ==
    \A p \in Reports :
       proc[p].vin # "" => proc[p].resp # "500 server_error"

-----------------------------------------------------------------------------
\* The cache entries

\* request p has come back from a fetch that it made for key k
FetchedFor(p, k) ==
    \/ /\ proc[p].kind = "report" /\ proc[p].pc = "fetch"
       /\ proc'[p].pc = "done" /\ proc'[p].fetched
       /\ k = << proc[p].vin, proc[p].type >>
    \/ /\ proc[p].kind = "webhook" /\ proc[p].pc = "wfetch"
       /\ proc'[p].pc = "done"
       /\ k = << SessionVin(proc[p].sess), SessionType(proc[p].sess) >>

-----------------------------------------------------------------------------
\* The webhook's instant fulfillment

\* the cache key of the report that session s bought
BoughtKey(s) == << SessionVin(s), SessionType(s) >>

\* the event of request p is verified and its session bought a report
BoughtReport(p) ==
    /\ proc[p].kind = "webhook" /\ proc[p].sess # None
    /\ SessionIntent(proc[p].sess) = "buy_report"
    /\ SessionVin(proc[p].sess) # ""

\* C31: a verified event of a session that bought a report is answered 200
\* only by the step that comes back from the upstream fetch for the
\* session's (VIN, type); that step can be taken whatever the other requests
\* are doing, writes no other key, keeps one entry or none per key, and
\* changes no balance, no ledger and no consumed receipt.
C31_WebhookFetch ==
    /\ [](\A p \in Procs :
            (BoughtReport(p) /\ proc[p].pc = "wfetch")
            => ENABLED WebhookFetch(p))
    /\ [][\A p \in Procs :
            /\ (proc'[p] # proc[p] /\ proc'[p].kind = "webhook"
                /\ proc'[p].pc = "done" /\ proc'[p].resp = "200"
                /\ proc'[p].sess # None
                /\ SessionIntent(proc'[p].sess) = "buy_report"
                /\ SessionVin(proc'[p].sess) # "")
               => proc[p].pc = "wfetch"
            /\ (proc[p].kind = "webhook" /\ proc[p].pc = "wfetch"
                /\ proc'[p] # proc[p])
               => /\ proc'[p].pc = "done" /\ proc'[p].resp = "200"
                  /\ DOMAIN cache' = Keys
                  /\ \A j \in Keys \ {BoughtKey(proc[p].sess)} :
                        cache'[j] = cache[j]
                  /\ credits' = credits /\ ledger' = ledger
                  /\ CONSUMED' = CONSUMED]_vars

\* the webhook has written the report while a client request for the same
\* key, authorized before the write, is still at its own fetch
C31_Witness ==
    \E p \in Procs : \E q \in Reports :
       /\ BoughtReport(p) /\ proc[p].pc = "done" /\ proc[p].resp = "200"
       /\ cache[BoughtKey(proc[p].sess)] # NoPayload
       /\ proc[q].pc = "fetch"
       /\ << proc[q].vin, proc[q].type >> = BoughtKey(proc[p].sess)

-----------------------------------------------------------------------------
\* The credits of a session

\* the credits of one line item: its quantity (once when it has none) times
\* the credits of its price, an unknown price counting as the single price
ItemCredits(li) ==
    (IF li.quantity = 0 THEN 1 ELSE li.quantity)
    * (IF li.price \in {PRICE_10PACK, PRICE_10PACK_TEST}
       THEN CREDITS_PER_10PACK ELSE CREDITS_PER_SINGLE)

RECURSIVE SumCredits(_)
SumCredits(items) ==
    IF items = << >> THEN 0
    ELSE ItemCredits(Head(items)) + SumCredits(Tail(items))

\* C32: each of the two loops yields the sum over the line items of quantity
\* times the credits of the price; the two results are the same; for a
\* session with a line item the result is not zero.
C32_CreditsToAdd ==
    /\ granted.webhook # -1
          => /\ granted.webhook = SumCredits(lineItems)
             /\ lineItems # << >> => granted.webhook > 0
    /\ granted.finalize # -1
          => /\ granted.finalize = SumCredits(lineItems)
             /\ lineItems # << >> => granted.finalize > 0
    /\ (granted.webhook # -1 /\ granted.finalize # -1)
          => granted.webhook = granted.finalize

\* both loops ran on a pack with a test price and an item of an unknown
\* price without quantity
C32_Witness ==
    /\ Len(lineItems) = 2
    /\ lineItems[1] = [price |-> PRICE_10PACK_TEST, quantity |-> 2]
    /\ lineItems[2] = [price |-> "price_other", quantity |-> 0]
    /\ granted.webhook = 2 * CREDITS_PER_10PACK + CREDITS_PER_SINGLE
    /\ granted.finalize = granted.webhook

-----------------------------------------------------------------------------
\* The classes of a failed upstream fetch

\* the provider rejected the request: status 400 or 404, or a body that says
\* the VIN is invalid or not found
Rejected(a) ==
    /\ a.kind = "http" /\ a.status >= 400
    /\ \/ a.status \in {400, 404}
       \/ a.body \in {"invalid vin", "vin not found"}

\* the upstream call failed
Failed(a) == a.kind # "http" \/ a.status >= 400

\* C33: when the upstream fetch of a report request fails, the answer is 422
\* remote_reject if the provider rejected the request and 502 provider_error
\* otherwise, a timeout included; the step of any failed fetch, of whichever
\* class, leaves balances, ledger, consumed receipts and cache as they are.
C33_FetchErrorClasses ==
    [][\A p \in Procs :
         (proc[p].kind = "report" /\ proc[p].pc = "fetch"
          /\ proc'[p] # proc[p] /\ Failed(answer))
         => /\ proc'[p].pc = "done"
            /\ proc'[p].resp = IF Rejected(answer) THEN "422 remote_reject"
                               ELSE "502 provider_error"
            /\ ~proc'[p].fetched
            /\ credits' = credits /\ ledger' = ledger
            /\ CONSUMED' = CONSUMED /\ cache' = cache]_vars

\* a fetch ran into the timeout and was answered 502
C33_Witness ==
    /\ answer.kind = "timeout"
    /\ \E p \in Reports :
          /\ proc[p].pc = "done" /\ proc[p].path # None
          /\ proc[p].resp = "502 provider_error" /\ ~proc[p].fetched

-----------------------------------------------------------------------------
\* VIN resolution

\* C34: a report request that ends before it holds a valid VIN is answered
\* 400 vin_required when no VIN could be resolved (the only other answer is
\* the 422 of a resolved VIN that validateVin refuses), and it has touched
\* no balance and no receipt.
C34_UnresolvedVin ==
    \A p \in Reports :
       (proc[p].pc = "done" /\ proc[p].vin = "")
       => /\ proc[p].resp \in {"400 vin_required", "422 invalid_vin"}
          /\ proc[p].path = None /\ proc[p].delta = 0
          /\ proc[p].receipt = None

-----------------------------------------------------------------------------
\* Pruning of share tokens

\* the entries of the token store whose time is up
ExpiredTokens == {m \in SHARE_TOKENS : m.exp <= now}

\* C35: a step that removes a token from the store removes exactly the
\* tokens whose expiry is at or before the current time; after a GET
\* /view/:token the store holds no such token; and a token whose time is up
\* is eventually gone from the store.
C35_ExpiredPurged ==
    /\ [][/\ SHARE_TOKENS' # SHARE_TOKENS /\ minted' = minted
             => SHARE_TOKENS' = SHARE_TOKENS \ ExpiredTokens
          /\ ShareStep("view")
             => /\ SHARE_TOKENS' = SHARE_TOKENS \ ExpiredTokens
                /\ \A m \in SHARE_TOKENS' : m.exp > now]_vars
    /\ \A t \in Tokens :
          (\E m \in ExpiredTokens : m.tok = t) ~> (Meta(t) = {})

\* the timer has removed an expired token and left one that is still good
C35_Witness ==
    /\ minted = 2
    /\ Meta(1) = {}
    /\ \E m \in SHARE_TOKENS : m.tok = 2 /\ m.exp > now
    /\ out.op = "share"

-----------------------------------------------------------------------------
\* Receipts that did not verify

\* C36: the step that answers a receipt's verification with 402
\* payment_incomplete or 400 receipt_invalid leaves the consumed set and its
\* file unchanged and the receipt unrecorded as an authorization; a receipt
\* that was refused this way and is not in the consumed set passes the
\* gate of a later request to its verification.
C36_FailedReceiptNotConsumed ==
    /\ [][\A p \in Procs :
            (proc[p].kind = "report" /\ proc[p].pc = "verify"
             /\ proc'[p].resp \in {"402 payment_incomplete",
                                   "400 receipt_invalid"})
            => /\ CONSUMED' = CONSUMED
               /\ CONSUMED_FILE' = CONSUMED_FILE
               /\ proc'[p].path = None]_vars
    /\ [][\A p \in Procs : \A q \in Procs \ {p} :
            (/\ proc[q].resp \in {"402 payment_incomplete",
                                  "400 receipt_invalid"}
             /\ proc[q].receipt \notin CONSUMED
             /\ proc[p].pc = "idle" /\ proc'[p].kind = "report"
             /\ proc'[p].receipt = proc[q].receipt)
            => proc'[p].pc = "verify"]_vars

\* a receipt was refused as unpaid and has authorized a later request
C36_Witness ==
    \E p \in Reports : \E q \in Reports :
       /\ proc[q].resp = "402 payment_incomplete"
       /\ proc[p].receipt = proc[q].receipt
       /\ proc[p].path = "receipt" /\ proc[p].payment = "paid"
       /\ proc[p].receipt \in CONSUMED
       /\ p > q

-----------------------------------------------------------------------------
\* Requests that forbid a live fetch

\* C37: a report request that arrives with allowLive false is answered in the
\* step of its arrival, with 404 not_found when the cache has no entry for
\* its key, and that step changes no balance, no ledger, neither the consumed
\* set nor its file, and not the cache; such a request is never at the
\* payment verification, the credit RPC or the upstream fetch, whatever
\* receipt or user came with it.
C37_NoLiveNoBilling ==
    /\ [][\A p \in Procs :
            (/\ proc[p].pc = "idle" /\ proc'[p].kind = "report"
             /\ ~proc'[p].allowLive)
            => /\ proc'[p].pc = "done"
               /\ cache[<< proc'[p].vin, proc'[p].type >>] = NoPayload
                  => proc'[p].resp = "404 not_found"
               /\ UNCHANGED << credits, ledger, CONSUMED, CONSUMED_FILE,
                               cache >>]_vars
    /\ [](\A p \in Procs :
            (proc[p].kind = "report" /\ ~proc[p].allowLive)
            => /\ proc[p].pc = "done"
               /\ proc[p].path = None /\ proc[p].payment = None
               /\ proc[p].delta = 0 /\ ~proc[p].fetched)

\* a request without live fetch was answered 404 for a key that a second
\* request, with live fetch, paid by receipt and fetched
C37_Witness ==
    \E p \in Reports : \E q \in Reports :
       /\ ~proc[p].allowLive /\ proc[p].resp = "404 not_found"
       /\ proc[q].vin = proc[p].vin /\ proc[q].type = proc[p].type
       /\ proc[q].path = "receipt" /\ proc[q].resp = "200"

-----------------------------------------------------------------------------
(********** POST /api/report of the earlier servers (src/unnamed) **********)
\* The handler of part_004 (that of part_003 differs in the wording of its
\* log lines): the receipt is verified and consumed first, then the cache is
\* read.  It has no validateVin and no compensation; its answers carry a
\* status and a line of text, of which the model keeps the status.

\* from the cache read to the next call that waits: getUser is asked on the
\* live branch only, and a receipt takes the request past both billing tests
EarlierCacheCheck(r, vin, type, allowLive, user, as, convOk) ==
    LET raw == readCache(vin, type)
        r1 == [r EXCEPT !.vin = vin, !.type = type, !.hit = (raw # NoPayload),
                        !.allowLive = allowLive]
    IN
    IF raw = NoPayload /\ allowLive THEN
        IF user # None /\ r.receipt = None
        THEN [r1 EXCEPT !.user = user, !.pc = "rpc"]
        ELSE IF user = None /\ r.receipt = None THEN Done(r1, "401")
        ELSE [r1 EXCEPT !.pc = "fetch"]
    ELSE IF raw = NoPayload THEN Done(r1, "404")
    ELSE Done(r1, ServeResp(raw, as, convOk))

\* the request arrives: the VIN is resolved, a receipt sends the handler to
\* its verification before anything is read from the cache
EarlierReportStart(p) ==
    /\ CanStart(p)
    /\ \E vin \in {"", "v1", "V2"}, plate \in {"V2", "", "throw", "notgiven"} :
         LET r == [IdleProc EXCEPT !.kind = "earlier_report"]
             given == toUpperCase(trim(vin))
             targetVin == IF given = "" /\ plate # "notgiven" THEN plate
                          ELSE given
         IN  /\ given # "" => plate = "notgiven"
             /\ IF targetVin = "throw"
                THEN proc' = [proc EXCEPT ![p] = Done(r, "500")]
                ELSE IF targetVin = ""
                THEN proc' = [proc EXCEPT ![p] = Done(r, "400")]
                ELSE \E type \in Types, receipt \in Receipts \cup {None} :
                       IF receipt # None THEN
                          IF ReceiptUsed(receipt)
                          THEN proc' = [proc EXCEPT ![p] =
                                  Done([r EXCEPT !.receipt = receipt], "409")]
                          ELSE proc' = [proc EXCEPT ![p] =
                                  [r EXCEPT !.vin = targetVin, !.type = type,
                                            !.receipt = receipt,
                                            !.pc = "verify"]]
                       ELSE \E allowLive \in BOOLEAN, user \in Users \cup {None},
                               as \in {"html", "pdf"}, convOk \in BOOLEAN :
                              proc' = [proc EXCEPT ![p] =
                                  EarlierCacheCheck(r, targetVin, type,
                                                    allowLive, user, as,
                                                    convOk)]
    /\ UNCHANGED << credits, ledger, cache, CONSUMED, bal0, sideVars, diskVars >>

\* the payment processor has answered: a paid receipt is consumed and saved,
\* and only then is the cache read
EarlierReportVerify(p) ==
    /\ At(p, "earlier_report", "verify")
    /\ \E outcome \in {"paid", "unpaid", "throw"} :
         IF outcome = "paid" THEN
            /\ CONSUMED' = CONSUMED \cup {proc[p].receipt}
            /\ \E ok \in DiskOutcomes :
                  CONSUMED_FILE' = saveConsumed(CONSUMED', ok)
            /\ \E allowLive \in BOOLEAN, user \in Users \cup {None},
                  as \in {"html", "pdf"}, convOk \in BOOLEAN :
                 proc' = [proc EXCEPT ![p] =
                            EarlierCacheCheck(
                               [proc[p] EXCEPT !.path = "receipt",
                                               !.payment = outcome],
                               proc[p].vin, proc[p].type, allowLive, user,
                               as, convOk)]
         ELSE
            /\ proc' = [proc EXCEPT ![p] =
                          Done([proc[p] EXCEPT !.payment = outcome],
                               IF outcome = "unpaid" THEN "402" ELSE "400")]
            /\ UNCHANGED << CONSUMED, CONSUMED_FILE >>
    /\ UNCHANGED << credits, ledger, cache, bal0, sideVars, disk >>

\* use_credit_for_vin has answered
EarlierReportRpc(p) ==
    /\ At(p, "earlier_report", "rpc")
    /\ LET u == proc[p].user IN
       \E reached \in BOOLEAN :
         IF reached /\ use_credit_for_vin_ok(u) THEN
            /\ credits' = use_credit_for_vin_credits(u)
            /\ ledger' = use_credit_for_vin_ledger(u)
            /\ proc' = [proc EXCEPT ![p].pc = "fetch", ![p].path = "credit",
                                    ![p].delta = -1]
         ELSE
            /\ proc' = [proc EXCEPT ![p] = Done(proc[p], "402")]
            /\ UNCHANGED << credits, ledger >>
    /\ UNCHANGED << cache, CONSUMED, bal0, sideVars, diskVars >>

\* csGet(getrecord) has answered: the report is written and served; an error
\* of the fetch or of the write reaches the outer catch
EarlierReportFetch(p) ==
    /\ At(p, "earlier_report", "fetch")
    /\ \E fetchOk \in BOOLEAN, live \in Payloads, writeOk \in BOOLEAN,
          as \in {"html", "pdf"}, convOk \in BOOLEAN :
         LET k == << proc[p].vin, proc[p].type >> IN
         IF fetchOk /\ writeOk THEN
            /\ cache' = [cache EXCEPT ![k] = live]
            /\ proc' = [proc EXCEPT ![p] =
                          Done([proc[p] EXCEPT !.fetched = TRUE],
                               ServeResp(live, as, convOk))]
         ELSE
            /\ proc' = [proc EXCEPT ![p] =
                          Done([proc[p] EXCEPT !.fetched = fetchOk], "500")]
            /\ UNCHANGED cache
    /\ UNCHANGED << credits, ledger, CONSUMED, bal0, sideVars, diskVars >>

EarlierNext ==
    \E p \in Procs :
        \/ EarlierReportStart(p)
        \/ EarlierReportVerify(p)
        \/ EarlierReportRpc(p)
        \/ EarlierReportFetch(p)

\* the earlier server over a cache directory that holds an old report
EarlierSpec == ShareInit /\ [][EarlierNext]_vars

\* C38: in the earlier handlers, the step that answers a request with a paid,
\* unused receipt from the cache (the report of its VIN and type is there)
\* leaves the consumed set and its file as they were.
C38_EarlierCacheSkipsReceipt ==
    [][\A p \in Procs :
         (/\ At(p, "earlier_report", "verify")
          /\ readCache(proc[p].vin, proc[p].type) # NoPayload
          /\ proc'[p].payment = "paid")
         => /\ proc'[p].pc = "done" /\ proc'[p].hit
            /\ CONSUMED' = CONSUMED
            /\ CONSUMED_FILE' = CONSUMED_FILE]_vars

=============================================================================
